---- MODULE Spec2Model ----
(***************************************************************************)
(* MCP tool sessions of the Flowise MCP nodes: the MCPToolkit of           *)
(* tools/MCP/core (the activeToolkits variant), the module-level caches    *)
(* runtimeInstances of the Custom MCP and Brave Search MCP nodes, and the  *)
(* shutdown hook.  An async function is cut where it awaits something      *)
(* outside (connect, tools/list, the credential lookup, a timer): one      *)
(* action is the code that runs between two such awaits.  An await of a    *)
(* promise that is already settled (cleanup(), Promise.all of the proxies) *)
(* resumes in the same turn of the event loop and stays in the action.     *)
(***************************************************************************)
EXTENDS Integers, Sequences, FiniteSets, TLC

\* ---------------------------------------------------------------- bounds
\* calls of init()/listActions() made in one run
MaxCalls == 2
\* server processes that end on their own in one run
MaxExits == 1
\* invocations of a tool proxy in one run
MaxInvokes == 1

\* ---------------------------------------------------------------- inputs
\* every call constructs at most one MCPToolkit
MaxToolkits == MaxCalls
ToolkitIds == 1..MaxToolkits
TaskIds == 1..MaxCalls
\* nodeData.id of one Custom MCP node and of one Brave Search MCP node
Keys == {"customMCP_0", "braveSearchMCP_0"}
\* nodeData.inputs.mcpServerConfig (Custom) / the braveApiKey credential (Brave):
\* two well-formed values, one without a command, one absent
Configs == {"cfgA", "cfgB", "noCommand", "absent"}
Signals == {"SIGINT", "SIGTERM"}
\* _tools: ListToolsResult | null, a ListToolsResult being { tools: [...] }
Null == [isNull |-> TRUE, tools |-> <<>>]
ListToolsResult(lst) == [isNull |-> FALSE, tools |-> lst]
\* configHash?: string, before it is assigned
Undefined == <<"undefined", "">>
\* tools/list responses: each descriptor is [name, wellFormed], wellFormed
\* standing for inputSchema.type = 'object' with properties present
SearchTool == [name |-> "search", wellFormed |-> TRUE]
FetchTool == [name |-> "fetch", wellFormed |-> TRUE]
BadTool == [name |-> "bad", wellFormed |-> FALSE]
ListToolsResults == {<<SearchTool>>, <<SearchTool, FetchTool>>, <<SearchTool, BadTool>>}

NodeKind(k) == IF k = "customMCP_0" THEN "custom" ELSE "brave"

VARIABLES
    toolkits,          \* MCPToolkit objects by id: fields of the class + its child process
    nextId,            \* the next MCPToolkit to be constructed
    activeToolkits,    \* core: export const activeToolkits = new Set<MCPToolkit>()
    shuttingDown,      \* core: let shuttingDown = false
    runtimeInstances,  \* node modules: runtimeInstances Map, 0 for no entry
    tasks,             \* the calls of init()/listActions(): position and result
    timers,            \* toolkits with a pending setTimeout(cleanup, 0)
    hasDestroy,        \* typeof transport.destroy === 'function' in this build
    shutdownPc,        \* per signal: position of its shutdownGracefully call
    node,              \* the node (nodeData.id) this run's calls are made on
    bodyRuns,          \* how often the body of shutdownGracefully has run
    exits,             \* how many server processes have ended on their own
    cleanupCalled,     \* the toolkits cleanup() has been called on
    hostExited,        \* the host process has ended ('exit' event)
    invoked,           \* the invocations of tool proxies made, with their outcome
    \* the variant of core that spawns the server process itself (core.ts)
    spawnToolkits,     \* its MCPToolkit objects by id, with the position of initialize()
    procs,             \* the child processes, as the host sees them
    processRegistry,   \* core.ts: const processRegistry = new Map<string, ChildProcess>()
    killTimers,        \* toolkits with a pending SIGKILL timer of cleanup()
    hookRuns,          \* how often the process.on('exit') hook has run
    coreCalls          \* the calls of getTools()/initialize() made, in order

\* the variables of the activeToolkits variant with its nodes
nodeVars == <<toolkits, nextId, activeToolkits, shuttingDown, runtimeInstances, tasks,
              timers, hasDestroy, shutdownPc, node, bodyRuns, exits, cleanupCalled,
              hostExited, invoked>>

\* the variables of the process-spawning variant
coreVars == <<spawnToolkits, procs, processRegistry, killTimers, hookRuns, coreCalls>>

vars == <<nodeVars, coreVars>>

\* ------------------------------------------------------------ MCPToolkit
\* class MCPToolkit: the fields after construction.  proc is the child process
\* the stdio transport spawns on connect: "none", "running", "exited" (on its
\* own), "terminated" (by transport.destroy()); owner/ephemeral record the call
\* that constructed the toolkit, server_config the configuration it was given;
\* destroyThrew tells that a transport.destroy() on it threw, cleanupThrew that
\* a cleanup() on it ended with an exception.
NewToolkit(k, eph, cfg) ==
    [client |-> FALSE, transport |-> FALSE, _tools |-> Null, tools |-> <<>>,
     configHash |-> Undefined, proc |-> "none", destroyCalls |-> 0,
     owner |-> k, ephemeral |-> eph, server_config |-> cfg,
     destroyThrew |-> FALSE, cleanupThrew |-> FALSE]

NoToolkit == NewToolkit("", FALSE, "")

\* initialize()'s guard: the toolkit counts as already initialized
Initialized(tk) == tk.client /\ tk._tools # Null

\* an initialize() that returns at its guard whatever the toolkit's state
InitializeStartReturns(tk) == tk

\* MCPToolkit.initialize up to its first await: the guard, new Client,
\* setupTransport (the command is known to be present here)
InitializeStart(tk) ==
    IF Initialized(tk)
    THEN tk
    ELSE [tk EXCEPT !.client = TRUE, !.transport = TRUE]

\* cleanup()'s guard: the body runs only for a member of activeToolkits
CleanupRuns(t, active) == t \in active

\* what a call of transport.destroy() does: it ends the process and returns
\* ("none"), throws before it has ended the process ("before"), or throws
\* after it has ended it ("after")
DestroyFaults == {"none", "before", "after"}

\* the state after a statement: the toolkit, and whether an exception is
\* propagating
Normal(tk) == [tk |-> tk, exc |-> FALSE]

\* a catch block that lets the exception go on
CatchRethrows(r) == r

\* catch (error) { console.error(...) }: the exception ends here
Catch(r) == [r EXCEPT !.exc = FALSE]

\* this.<field> = v: skipped while an exception propagates
Assign(r, field, v) == IF r.exc THEN r ELSE [r EXCEPT !.tk[field] = v]

\* (this.transport as any).destroy()
Destroy(r, fault) ==
    IF r.exc
    THEN r
    ELSE [tk |-> [r.tk EXCEPT
                    !.destroyCalls = @ + 1,
                    !.proc = IF @ = "running" /\ fault # "before" THEN "terminated" ELSE @,
                    !.destroyThrew = @ \/ fault # "none"],
          exc |-> fault # "none"]

\* a cleanup() body that drops the transport and leaves the rest
CleanupBodyTransportOnly(tk, destroyable, fault) == [tk EXCEPT !.transport = FALSE]

\* cleanup()'s body on one toolkit, statement by statement: the inner try
\* around destroy(), the outer try around the transport block, then the
\* assignments that follow it
CleanupBody(tk, destroyable, fault) ==
    LET r0 == Normal(tk)
        inner == IF destroyable THEN Catch(Destroy(r0, fault)) ELSE r0
        outer == IF tk.transport THEN Assign(inner, "transport", FALSE) ELSE r0
        r1 == IF tk.client THEN Assign(Catch(outer), "client", FALSE) ELSE r0
        r2 == Assign(Assign(Assign(r1, "transport", FALSE), "_tools", Null),
                     "tools", <<>>)
    IN [r2.tk EXCEPT !.cleanupThrew = @ \/ r2.exc]

\* cleanup() on toolkit t gets as far as calling transport.destroy()
CallsDestroy(tks, active, t) ==
    CleanupRuns(t, active) /\ tks[t].client /\ tks[t].transport /\ hasDestroy

\* what the destroy() calls of cleanup() on the toolkits of S can do
Faults(tks, active, S) ==
    {f \in [ToolkitIds -> DestroyFaults] :
        \A t \in ToolkitIds :
            ~(t \in S /\ CallsDestroy(tks, active, t)) => f[t] = "none"}

\* a loop over S that stops at the first toolkit whose destroy() throws
ToolkitsAfterCleanupFailFast(tks, active, S, f) ==
    [t \in ToolkitIds |->
        IF t \in S /\ CleanupRuns(t, active)
             /\ \A u \in S : u < t => f[u] = "none"
        THEN CleanupBody(tks[t], hasDestroy, f[t])
        ELSE tks[t]]

\* toolkits after cleanup() was called on every toolkit of S, the destroy()
\* call on t doing f[t]
ToolkitsAfterCleanup(tks, active, S, f) ==
    [t \in ToolkitIds |->
        IF t \in S /\ CleanupRuns(t, active)
        THEN CleanupBody(tks[t], hasDestroy, f[t])
        ELSE tks[t]]

\* a cleanup() that empties the whole set
ActiveDrained(active, S) == {}

\* activeToolkits after cleanup() was called on every toolkit of S
ActiveAfterCleanup(active, S) == active \ {t \in S : CleanupRuns(t, active)}

\* cleanup() called on every toolkit of S, the toolkits being tks before
Cleanup(tks, S) ==
    /\ \E f \in Faults(tks, activeToolkits, S) :
          toolkits' = ToolkitsAfterCleanup(tks, activeToolkits, S, f)
    /\ activeToolkits' = ActiveAfterCleanup(activeToolkits, S)
    /\ cleanupCalled' = cleanupCalled \cup S

\* a createSchemaModel that accepts every descriptor
SchemaNeverThrows(d) == FALSE

\* createSchemaModel throws for a descriptor that is not well formed
SchemaThrows(d) == ~d.wellFormed

\* a get_tools that returns the proxies in reverse order
GetToolsReversed(lst) == [n \in 1..Len(lst) |-> lst[Len(lst) + 1 - n].name]

\* get_tools: one proxy per descriptor, in order; throws if any schema does
GetToolsThrows(lst) == \E n \in 1..Len(lst) : SchemaThrows(lst[n])
GetTools(lst) == [n \in 1..Len(lst) |-> lst[n].name]

\* ------------------------------------------------------------ node modules
\* currentConfigHash: JSON.stringify(mcpServerConfig ?? '') for the Custom node,
\* `braveApiKey:${braveApiKey}` for the Brave node
ConfigHashOf(k, cfg) ==
    IF NodeKind(k) = "custom"
    THEN <<"json", IF cfg = "absent" THEN "" ELSE cfg>>
    ELSE <<"braveApiKey:", cfg>>

\* the configurations a node of this kind can be called with
ConfigsOf(k) == IF NodeKind(k) = "custom" THEN Configs ELSE Configs \ {"noCommand"}

\* checks that let a configuration without a command through
ConfigAcceptedWithoutCommand(k, cfg) == cfg # "absent"

\* createAndInitToolkit's checks before new MCPToolkit
ConfigAccepted(k, cfg) ==
    IF NodeKind(k) = "custom"
    THEN cfg # "absent" /\ cfg # "noCommand"
    ELSE cfg # "absent"

\* Custom createAndInitToolkit adds the toolkit to activeToolkits itself
AddsOnCreate(k) == NodeKind(k) = "custom"

\* a cache check that compares the stored hash with the raw configuration
CacheHitRawConfig(k, cfg) ==
    /\ runtimeInstances[k] # 0
    /\ toolkits[runtimeInstances[k]].configHash = <<"raw", cfg>>

\* the cache check of getRuntimeToolkit
CacheHit(k, cfg) ==
    /\ runtimeInstances[k] # 0
    /\ toolkits[runtimeInstances[k]].configHash = ConfigHashOf(k, cfg)

\* ------------------------------------------------------------ core.ts
\* The variant of core whose MCPToolkit spawns the server process itself and
\* keeps it in processRegistry, with the Custom MCP node that uses it (getTools).
\* per toolkit: the process _spawnProcess spawns and the process the stdio
\* transport spawns when the client connects
ProcIds == 1..(2 * MaxCalls)
\* nodeData.inputs.mcpServerConfig of getTools
SpawnConfigs == {"cfgA", "noCommand", "absent"}

\* class MCPToolkit of core.ts after construction; pc is the position of the
\* initialize() call on it
NewSpawnToolkit(cfg) ==
    [client |-> FALSE, transport |-> FALSE, _tools |-> Null, tools |-> <<>>,
     model_config |-> cfg, process |-> 0, pc |-> "new"]

NoSpawnToolkit == [NewSpawnToolkit("") EXCEPT !.pc = "none"]

\* a ChildProcess: state is "running", "exited" (with a code) or "killed" (by a
\* signal); kind tells who spawned it; the counters are the signals sent to it
\* by cleanup() (sigterm, sigkill) and by the exit hook (hookterm); killThrew
\* tells that a kill() of cleanup() on it threw
NoProc ==
    [state |-> "none", kind |-> "none", owner |-> 0,
     sigterm |-> 0, sigkill |-> 0, hookterm |-> 0, killThrew |-> FALSE]

NewProc(kind, t) == [NoProc EXCEPT !.state = "running", !.kind = kind, !.owner = t]

\* childProcess.exitCode === null: true while the child runs, and still true
\* after a signal has ended it (then signalCode is set, exitCode stays null)
ExitCodeIsNull(p) == p.state \in {"running", "killed"}

\* childProcess.kill(signal): the signal goes out only while the child lives
Kill(ps, p, signal) ==
    IF ps[p].state = "running"
    THEN [ps EXCEPT ![p][signal] = @ + 1]
    ELSE ps

InitCore ==
    /\ spawnToolkits = [t \in ToolkitIds |-> NoSpawnToolkit]
    /\ procs = [p \in ProcIds |-> NoProc]
    /\ processRegistry = [t \in ToolkitIds |-> 0]
    /\ killTimers = {}
    /\ hookRuns = 0
    /\ coreCalls = <<>>

IdleTask == [op |-> "none", key |-> "", cfg |-> "", pc |-> "idle", tk |-> 0, out |-> "none"]

TypeOK ==
    /\ nextId \in 1..(MaxToolkits + 1)
    /\ activeToolkits \subseteq ToolkitIds
    /\ shuttingDown \in BOOLEAN
    /\ runtimeInstances \in [Keys -> 0..MaxToolkits]
    /\ timers \subseteq ToolkitIds
    /\ hasDestroy \in BOOLEAN
    /\ node \in Keys
    /\ bodyRuns \in 0..2
    /\ hostExited \in BOOLEAN
    /\ Len(invoked) <= MaxInvokes

Init ==
    /\ toolkits = [t \in ToolkitIds |-> NoToolkit]
    /\ nextId = 1
    /\ activeToolkits = {}
    /\ shuttingDown = FALSE
    /\ runtimeInstances = [k \in Keys |-> 0]
    /\ tasks = [i \in TaskIds |-> IdleTask]
    /\ timers = {}
    /\ hasDestroy \in BOOLEAN
    /\ shutdownPc = [s \in Signals |-> "idle"]
    /\ node \in Keys
    /\ bodyRuns = 0
    /\ exits = 0
    /\ cleanupCalled = {}
    /\ hostExited = FALSE
    /\ invoked = <<>>
    /\ InitCore


\* ------------------------------------------------------------ async calls
\* code runs only while the host process lives
Running == ~hostExited

\* a failed call that always rethrows
FailedTaskRethrows(op, k, cfg, t) ==
    [op |-> op, key |-> k, cfg |-> cfg, pc |-> "failed", tk |-> t, out |-> "threw"]

\* how a call that failed ends: init() rethrows, listActions() catches and
\* returns the 'error' placeholder option
FailedTask(op, k, cfg, t) ==
    IF op = "init"
    THEN [op |-> op, key |-> k, cfg |-> cfg, pc |-> "failed", tk |-> t, out |-> "threw"]
    ELSE [op |-> op, key |-> k, cfg |-> cfg, pc |-> "done", tk |-> t, out |-> "error"]

\* calls are numbered in the order they are made
Free(i) == tasks[i].pc = "idle" /\ \A j \in 1..(i - 1) : tasks[j].pc # "idle"

\* createAndInitToolkit from its entry to the first await of initialize():
\* the configuration checks, new MCPToolkit, initialize() up to client.connect;
\* cfg is the configuration the caller computed its hash from, launch the one
\* createAndInitToolkit reads itself; tks are the toolkits before
BeginCreate(i, op, k, cfg, launch, tks) ==
    IF ~ConfigAccepted(k, launch)
    THEN /\ tasks' = [tasks EXCEPT ![i] = FailedTask(op, k, cfg, 0)]
         /\ toolkits' = tks
         /\ UNCHANGED nextId
    ELSE /\ toolkits' = [tks EXCEPT
                           ![nextId] = InitializeStart(NewToolkit(k, op = "list", launch))]
         /\ nextId' = nextId + 1
         /\ tasks' = [tasks EXCEPT ![i] =
                [op |-> op, key |-> k, cfg |-> cfg, pc |-> "connecting",
                 tk |-> nextId, out |-> "none"]]

\* the Brave node awaits the credential before createAndInitToolkit goes on
AwaitCreate(i, op, k, cfg, tks) ==
    /\ tasks' = [tasks EXCEPT ![i] =
          [op |-> op, key |-> k, cfg |-> cfg, pc |-> "create", tk |-> 0, out |-> "none"]]
    /\ toolkits' = tks
    /\ UNCHANGED nextId

\* the call goes on into createAndInitToolkit; the Custom node's reads the
\* same nodeData.inputs the hash was computed from
EnterCreate(i, op, k, cfg, tks) ==
    IF NodeKind(k) = "custom"
    THEN BeginCreate(i, op, k, cfg, cfg, tks)
    ELSE AwaitCreate(i, op, k, cfg, tks)

\* getRuntimeToolkit of the Brave node up to its first await, the credential
\* lookup its configuration hash is computed from
GetRuntimeToolkitAwait(i, k, cfg) ==
    /\ Running
    /\ Free(i)
    /\ NodeKind(k) = "brave"
    /\ tasks' = [tasks EXCEPT ![i] =
            [op |-> "init", key |-> k, cfg |-> cfg, pc |-> "credential", tk |-> 0,
             out |-> "none"]]
    /\ UNCHANGED <<toolkits, nextId, activeToolkits, shuttingDown, runtimeInstances,
                   timers, hasDestroy, coreVars, hostExited, invoked, shutdownPc, node, bodyRuns, exits, cleanupCalled>>

\* call i of getRuntimeToolkit is at its cache check: the Custom node's at the
\* call, the Brave node's when the credential lookup has returned
AtCacheCheck(i, k, cfg) ==
    IF NodeKind(k) = "custom"
    THEN Free(i)
    ELSE /\ tasks[i].pc = "credential"
         /\ tasks[i].key = k
         /\ tasks[i].cfg = cfg

\* getRuntimeToolkit, cache hit: the cached instance is returned as it is
GetRuntimeToolkitHit(i, k, cfg) ==
    /\ Running
    /\ AtCacheCheck(i, k, cfg)
    /\ CacheHit(k, cfg)
    /\ tasks' = [tasks EXCEPT ![i] =
            [op |-> "init", key |-> k, cfg |-> cfg, pc |-> "done",
             tk |-> runtimeInstances[k], out |-> "toolkit"]]
    /\ UNCHANGED <<toolkits, nextId, activeToolkits, shuttingDown, runtimeInstances,
                   timers, hasDestroy, coreVars, hostExited, invoked, shutdownPc, node, bodyRuns, exits, cleanupCalled>>

\* an eviction that leaves the entry in the map
EntryKept(map, k) == map

\* runtimeInstances.delete(nodeData.id)
EntryDeleted(map, k) == [map EXCEPT ![k] = 0]

\* getRuntimeToolkit, configuration changed: the entry is deleted, cleanup() is
\* called on the old instance, then a new toolkit is created
GetRuntimeToolkitEvict(i, k, cfg) ==
    /\ Running
    /\ AtCacheCheck(i, k, cfg)
    /\ runtimeInstances[k] # 0
    /\ ~CacheHit(k, cfg)
    /\ runtimeInstances' = EntryDeleted(runtimeInstances, k)
    /\ activeToolkits' = ActiveAfterCleanup(activeToolkits, {runtimeInstances[k]})
    /\ cleanupCalled' = cleanupCalled \cup {runtimeInstances[k]}
    /\ \E f \in Faults(toolkits, activeToolkits, {runtimeInstances[k]}) :
          EnterCreate(i, "init", k, cfg,
                      ToolkitsAfterCleanup(toolkits, activeToolkits,
                                           {runtimeInstances[k]}, f))
    /\ UNCHANGED <<shuttingDown, timers, hasDestroy, coreVars, hostExited, invoked, shutdownPc, node, bodyRuns, exits>>

\* getRuntimeToolkit, no entry: a new toolkit is created
GetRuntimeToolkitMiss(i, k, cfg) ==
    /\ Running
    /\ AtCacheCheck(i, k, cfg)
    /\ runtimeInstances[k] = 0
    /\ EnterCreate(i, "init", k, cfg, toolkits)
    /\ UNCHANGED <<activeToolkits, shuttingDown, runtimeInstances, timers, hasDestroy, coreVars, hostExited, invoked,
                   shutdownPc, node, bodyRuns, exits, cleanupCalled>>

\* a listActions without the check of the configuration
ConfigMissingNever(k, cfg) == FALSE

\* listActions of the Custom node is given no configuration
ConfigMissing(k, cfg) == NodeKind(k) = "custom" /\ cfg = "absent"

\* listActions without a configuration: the 'config_missing' placeholder
ListActionsConfigMissing(i, k, cfg) ==
    /\ Running
    /\ Free(i)
    /\ ConfigMissing(k, cfg)
    /\ tasks' = [tasks EXCEPT ![i] =
            [op |-> "list", key |-> k, cfg |-> cfg, pc |-> "done", tk |-> 0,
             out |-> "config_missing"]]
    /\ UNCHANGED <<toolkits, nextId, activeToolkits, shuttingDown, runtimeInstances,
                   timers, hasDestroy, coreVars, hostExited, invoked, shutdownPc, node, bodyRuns, exits, cleanupCalled>>

\* listActions, refresh: a cached instance is deleted from the map and cleaned
\* up; then fetchToolsFromServer
ListActionsRefresh(i, k, cfg) ==
    /\ Running
    /\ Free(i)
    /\ ~ConfigMissing(k, cfg)
    /\ runtimeInstances[k] # 0
    /\ runtimeInstances' = EntryDeleted(runtimeInstances, k)
    /\ activeToolkits' = ActiveAfterCleanup(activeToolkits, {runtimeInstances[k]})
    /\ cleanupCalled' = cleanupCalled \cup {runtimeInstances[k]}
    /\ \E f \in Faults(toolkits, activeToolkits, {runtimeInstances[k]}) :
          EnterCreate(i, "list", k, cfg,
                      ToolkitsAfterCleanup(toolkits, activeToolkits,
                                           {runtimeInstances[k]}, f))
    /\ UNCHANGED <<shuttingDown, timers, hasDestroy, coreVars, hostExited, invoked, shutdownPc, node, bodyRuns, exits>>

\* listActions, nothing cached: fetchToolsFromServer
ListActionsFetch(i, k, cfg) ==
    /\ Running
    /\ Free(i)
    /\ ~ConfigMissing(k, cfg)
    /\ runtimeInstances[k] = 0
    /\ EnterCreate(i, "list", k, cfg, toolkits)
    /\ UNCHANGED <<activeToolkits, shuttingDown, runtimeInstances, timers, hasDestroy, coreVars, hostExited, invoked,
                   shutdownPc, node, bodyRuns, exits, cleanupCalled>>

\* the credential lookup of the Brave node's createAndInitToolkit returns.  For
\* init() it is a second lookup, after the one getRuntimeToolkit computed the
\* hash from, and returns the credential as it is by now; for listActions it
\* is the only one
Create(i) ==
    /\ Running
    /\ tasks[i].pc = "create"
    /\ \E launch \in ConfigsOf(tasks[i].key) :
          /\ tasks[i].op = "list" => launch = tasks[i].cfg
          /\ BeginCreate(i, tasks[i].op, tasks[i].key, tasks[i].cfg, launch, toolkits)
    /\ UNCHANGED <<activeToolkits, shuttingDown, runtimeInstances, timers, hasDestroy, coreVars, hostExited, invoked,
                   shutdownPc, node, bodyRuns, exits, cleanupCalled>>

\* initialize()'s catch block: cleanup() on the toolkit, then the error goes up
\* through createAndInitToolkit to getRuntimeToolkit / fetchToolsFromServer (whose
\* tempToolkit is still undefined, so it calls no cleanup of its own)
InitializeFails(i, tks) ==
    /\ Cleanup(tks, {tasks[i].tk})
    /\ tasks' = [tasks EXCEPT ![i] =
                    FailedTask(tasks[i].op, tasks[i].key, tasks[i].cfg, tasks[i].tk)]
    /\ UNCHANGED <<nextId, shuttingDown, runtimeInstances, timers, hasDestroy, coreVars, hostExited, invoked,
                   shutdownPc, node, bodyRuns, exits>>

\* client.connect(transport) resolves: the transport has spawned the server
\* process; initialize() sends tools/list
ConnectOk(i) ==
    /\ Running
    /\ tasks[i].pc = "connecting"
    /\ toolkits' = [toolkits EXCEPT ![tasks[i].tk].proc = "running"]
    /\ tasks' = [tasks EXCEPT ![i].pc = "listing"]
    /\ UNCHANGED <<nextId, activeToolkits, shuttingDown, runtimeInstances, timers,
                   hasDestroy, coreVars, hostExited, invoked, shutdownPc, node, bodyRuns, exits, cleanupCalled>>

\* client.connect(transport) rejects: no process came up
ConnectFails(i) ==
    /\ Running
    /\ tasks[i].pc = "connecting"
    /\ InitializeFails(i, toolkits)

\* the tools/list request rejects
ListToolsFails(i) ==
    /\ Running
    /\ tasks[i].pc = "listing"
    /\ InitializeFails(i, toolkits)

\* a caller that stores the toolkit under the key whatever the call is
RegisteredStoresAlways(i, t) ==
    /\ runtimeInstances' = [runtimeInstances EXCEPT ![tasks[i].key] = t]
    /\ activeToolkits' = activeToolkits
           \cup (IF AddsOnCreate(tasks[i].key) THEN {t} ELSE {})
           \cup (IF tasks[i].op = "init" THEN {t} ELSE {})
    /\ timers' = IF tasks[i].op = "list" THEN timers \cup {t} ELSE timers

\* what the caller of createAndInitToolkit does with the toolkit it got:
\* getRuntimeToolkit stores it, fetchToolsFromServer schedules its cleanup
Registered(i, t) ==
    /\ runtimeInstances' = IF tasks[i].op = "init"
                           THEN [runtimeInstances EXCEPT ![tasks[i].key] = t]
                           ELSE runtimeInstances
    /\ activeToolkits' = activeToolkits
           \cup (IF AddsOnCreate(tasks[i].key) THEN {t} ELSE {})
           \cup (IF tasks[i].op = "init" THEN {t} ELSE {})
    /\ timers' = IF tasks[i].op = "list" THEN timers \cup {t} ELSE timers

\* the tools/list response arrives from the running server: _tools is set and
\* get_tools builds the proxies; then createAndInitToolkit and its caller run to
\* their return
ListToolsOk(i, lst) ==
    LET t == tasks[i].tk
        listed == [toolkits EXCEPT ![t]._tools = ListToolsResult(lst)]
    IN /\ Running
       /\ tasks[i].pc = "listing"
       /\ toolkits[t].proc = "running"
       /\ IF GetToolsThrows(lst)
          THEN InitializeFails(i, listed)
          ELSE /\ toolkits' = [listed EXCEPT
                      ![t].tools = GetTools(lst),
                      ![t].configHash =
                          IF tasks[i].op = "init"
                          THEN ConfigHashOf(tasks[i].key, tasks[i].cfg) ELSE @]
               /\ Registered(i, t)
               /\ tasks' = [tasks EXCEPT
                      ![i].pc = "done",
                      ![i].out = IF tasks[i].op = "init" THEN "toolkit" ELSE "tools"]
               /\ UNCHANGED <<nextId, shuttingDown, hasDestroy, coreVars, hostExited, invoked, shutdownPc, node,
                              bodyRuns, exits, cleanupCalled>>

\* the setTimeout(..., 0) callback of fetchToolsFromServer: tempToolkit.cleanup()
DeferredCleanup(t) ==
    /\ Running
    /\ t \in timers
    /\ timers' = timers \ {t}
    /\ Cleanup(toolkits, {t})
    /\ UNCHANGED <<nextId, shuttingDown, runtimeInstances, tasks, hasDestroy, coreVars, hostExited, invoked,
                   shutdownPc, node, bodyRuns, exits>>

\* a server process ends on its own
ProcessExits(t) ==
    /\ Running
    /\ toolkits[t].proc = "running"
    /\ exits < MaxExits
    /\ exits' = exits + 1
    /\ toolkits' = [toolkits EXCEPT ![t].proc = "exited"]
    /\ UNCHANGED <<nextId, activeToolkits, shuttingDown, runtimeInstances, tasks,
                   timers, hasDestroy, coreVars, hostExited, invoked, shutdownPc, node, bodyRuns, cleanupCalled>>

\* ------------------------------------------------------------ tool proxies
\* the proxy MCPTool built: its function sends tools/call through the client
\* object it captured, whatever the toolkit's fields are by now.  The request
\* goes out if the server process still runs; if not, the request of the
\* captured client rejects (a transport error).  ready records whether the
\* toolkit was Initialized, with its transport, when the proxy was invoked; tk
\* is the toolkit, status the state of the promise the proxy's function
\* returned: "pending" while it awaits client.request, then "resolved" or
\* "rejected".
MCPToolCall(t, tk) ==
    [ready |-> Initialized(tk) /\ tk.transport /\ tk.proc = "running",
     sent |-> tk.proc = "running",
     error |-> IF tk.proc = "running" THEN "none" ELSE "transport",
     tk |-> t,
     status |-> IF tk.proc = "running" THEN "pending" ELSE "rejected"]

\* a caller that got the proxies of toolkit t from init() invokes one of them
InvokeTool(t) ==
    /\ Running
    /\ Len(invoked) < MaxInvokes
    /\ \E i \in TaskIds :
          tasks[i].op = "init" /\ tasks[i].pc = "done" /\ tasks[i].tk = t
    /\ invoked' = Append(invoked, MCPToolCall(t, toolkits[t]))
    /\ UNCHANGED <<toolkits, nextId, activeToolkits, shuttingDown, runtimeInstances,
                   tasks, timers, hasDestroy, coreVars, hostExited, shutdownPc, node, bodyRuns,
                   exits, cleanupCalled>>

\* how an awaited client.request can end: the server's result arrives, the
\* server answers with an error, or the connection to the server is gone
RequestOutcomes(tk) ==
    IF tk.proc = "running" THEN {"result", "server"} ELSE {"transport"}

\* a proxy function that returns normally whatever client.request did
MCPToolReturnSwallows(call, outcome) == [call EXCEPT !.status = "resolved"]

\* the function of the proxy after its await: a result is returned as the
\* JSON string of its content, a rejection of client.request goes on to the
\* caller as it is
MCPToolReturn(call, outcome) ==
    [call EXCEPT !.status = IF outcome = "result" THEN "resolved" ELSE "rejected",
                 !.error = IF outcome = "result" THEN "none" ELSE outcome]

\* the client.request of invocation n settles and the proxy's function ends;
\* it touches no field of the toolkit and neither registry
ToolCallSettles(n) ==
    /\ Running
    /\ n \in 1..Len(invoked)
    /\ invoked[n].status = "pending"
    /\ \E outcome \in RequestOutcomes(toolkits[invoked[n].tk]) :
          invoked' = [invoked EXCEPT ![n] = MCPToolReturn(invoked[n], outcome)]
    /\ UNCHANGED <<toolkits, nextId, activeToolkits, shuttingDown, runtimeInstances,
                   tasks, timers, hasDestroy, coreVars, hostExited, shutdownPc, node, bodyRuns,
                   exits, cleanupCalled>>

\* ------------------------------------------------------------ shutdown hook
\* a guard that never stops a call
ShutdownGuardOff(flag) == FALSE

\* shutdownGracefully's guard: a call that finds the flag set returns at once
ShutdownGuard(flag) == flag

\* process.once(signal, () => shutdownGracefully(signal)): the guard, then the
\* snapshot and cleanup() on each toolkit of it, up to await Promise.allSettled
\* (kept as a step of its own, so that the other signal can arrive during it)
ShutdownGracefully(s) ==
    /\ Running
    /\ shutdownPc[s] = "idle"
    /\ IF ShutdownGuard(shuttingDown)
       THEN /\ shutdownPc' = [shutdownPc EXCEPT ![s] = "done"]
            /\ UNCHANGED <<toolkits, activeToolkits, shuttingDown, bodyRuns,
                           cleanupCalled>>
       ELSE /\ shuttingDown' = TRUE
            /\ bodyRuns' = bodyRuns + 1
            /\ Cleanup(toolkits, activeToolkits)
            /\ shutdownPc' = [shutdownPc EXCEPT ![s] =
                    IF activeToolkits = {} THEN "done" ELSE "awaiting"]
    /\ UNCHANGED <<nextId, runtimeInstances, tasks, timers, hasDestroy, coreVars, hostExited, invoked, node, exits>>

\* Promise.allSettled(cleanupPromises) settles and shutdownGracefully returns
ShutdownSettles(s) ==
    /\ Running
    /\ shutdownPc[s] = "awaiting"
    /\ shutdownPc' = [shutdownPc EXCEPT ![s] = "done"]
    /\ UNCHANGED <<toolkits, nextId, activeToolkits, shuttingDown, runtimeInstances,
                   tasks, timers, hasDestroy, coreVars, hostExited, invoked, node, bodyRuns, exits, cleanupCalled>>

\* the host process ends normally and emits 'exit': no listener is registered
\* for that event, so no code of these modules runs
NormalExit ==
    /\ Running
    /\ hostExited' = TRUE
    /\ UNCHANGED <<toolkits, nextId, activeToolkits, shuttingDown, runtimeInstances,
                   tasks, timers, hasDestroy, coreVars, invoked, shutdownPc, node, bodyRuns, exits,
                   cleanupCalled>>

Next ==
    \/ \E i \in TaskIds : \E cfg \in ConfigsOf(node) : GetRuntimeToolkitAwait(i, node, cfg)
    \/ \E i \in TaskIds : \E cfg \in ConfigsOf(node) : GetRuntimeToolkitHit(i, node, cfg)
    \/ \E i \in TaskIds : \E cfg \in ConfigsOf(node) : GetRuntimeToolkitEvict(i, node, cfg)
    \/ \E i \in TaskIds : \E cfg \in ConfigsOf(node) : GetRuntimeToolkitMiss(i, node, cfg)
    \/ \E i \in TaskIds : \E cfg \in ConfigsOf(node) : ListActionsConfigMissing(i, node, cfg)
    \/ \E i \in TaskIds : \E cfg \in ConfigsOf(node) : ListActionsRefresh(i, node, cfg)
    \/ \E i \in TaskIds : \E cfg \in ConfigsOf(node) : ListActionsFetch(i, node, cfg)
    \/ \E i \in TaskIds : Create(i)
    \/ \E i \in TaskIds : ConnectOk(i)
    \/ \E i \in TaskIds : ConnectFails(i)
    \/ \E i \in TaskIds : ListToolsFails(i)
    \/ \E i \in TaskIds, lst \in ListToolsResults : ListToolsOk(i, lst)
    \/ \E t \in ToolkitIds : DeferredCleanup(t)
    \/ \E t \in ToolkitIds : ProcessExits(t)
    \/ \E s \in Signals : ShutdownGracefully(s)
    \/ \E s \in Signals : ShutdownSettles(s)
    \/ \E t \in ToolkitIds : InvokeTool(t)
    \/ \E n \in 1..MaxInvokes : ToolCallSettles(n)
    \/ NormalExit

Spec == Init /\ [][Next]_vars

\* ------------------------------------------------------------ core.ts, actions
\* bounds of the calls made on this variant
MaxReinits == 1
MaxHookRuns == 2

\* the next unused toolkit / process
FreeToolkit(tks) ==
    CHOOSE t \in ToolkitIds :
        tks[t].pc = "none" /\ \A u \in 1..(t - 1) : tks[u].pc # "none"
FreeProc(ps) ==
    CHOOSE p \in ProcIds :
        ps[p].state = "none" /\ \A q \in 1..(p - 1) : ps[q].state # "none"

GetToolsCalls == Len(SelectSeq(coreCalls, LAMBDA c : c.op = "getTools"))
InitializeCalls == Len(SelectSeq(coreCalls, LAMBDA c : c.op = "initialize"))

\* cleanup() of core.ts on toolkit t, the toolkits being tks before; the
\* toolkit's call ends at position pcAfter.  The client and transport fields
\* are cleared without closing the transport; the process, if any, is taken
\* out of processRegistry, sent SIGTERM if its exitCode is null, and a timer
\* for SIGKILL is started; then this.process = null
\* Statement by statement: r holds the toolkit, the registry, the processes,
\* the pending SIGKILL timers and whether an exception is propagating.
\* the try block around the process: processRegistry.delete, then, if the
\* exitCode is null, kill('SIGTERM') (which may throw) and setTimeout
SignalProcess(r, t, throws) ==
    LET p == r.tk.process
        deleted == [r EXCEPT !.registry[t] = 0]
    IN IF ~ExitCodeIsNull(r.procs[p])
       THEN deleted
       ELSE IF throws
            THEN [deleted EXCEPT !.procs[p].killThrew = TRUE, !.exc = TRUE]
            ELSE [deleted EXCEPT !.procs = Kill(@, p, "sigterm"),
                                 !.timers = @ \cup {t}]

\* cleanup() gets as far as calling kill('SIGTERM')
CallsKill(tk, ps) == tk.process # 0 /\ ExitCodeIsNull(ps[tk.process])

SpawnCleanupBody(t, tks, ps, throws) ==
    LET r0 == [tk |-> tks[t], registry |-> processRegistry, procs |-> ps,
               timers |-> killTimers, exc |-> FALSE]
        r1 == IF r0.tk.client
              THEN Assign(Catch(IF r0.tk.transport
                                THEN Assign(r0, "transport", FALSE)
                                ELSE r0),
                          "client", FALSE)
              ELSE r0
        r2 == IF r1.tk.process # 0
              THEN Assign(Catch(SignalProcess(r1, t, throws)), "process", 0)
              ELSE r1
    IN Assign(Assign(Assign(r2, "transport", FALSE), "_tools", Null), "tools", <<>>)

\* cleanup() on toolkit t, the toolkits being tks and the processes ps before
SpawnCleanupFrom(t, tks, ps, pcAfter) ==
    \E throws \in (IF CallsKill(tks[t], ps) THEN BOOLEAN ELSE {FALSE}) :
        LET r == SpawnCleanupBody(t, tks, ps, throws)
        IN /\ spawnToolkits' = [tks EXCEPT ![t] =
                  [r.tk EXCEPT !.pc = IF r.exc THEN "threw" ELSE pcAfter]]
           /\ processRegistry' = r.registry
           /\ procs' = r.procs
           /\ killTimers' = r.timers

SpawnCleanup(t, tks, pcAfter) == SpawnCleanupFrom(t, tks, procs, pcAfter)

\* an initialize() that never takes the toolkit for initialized
InitializeGuardOff(tk) == TRUE

\* initialize()'s guard in core.ts: the body runs if _tools === null
InitializeGuard(tk) == tk._tools = Null

\* the first initialize() on the toolkit is at one of its awaits
Initializing(tk) == tk.pc \in {"spawnWait", "connecting", "listing"}

\* _spawnProcess's check of the command
HasCommand(cfg) == cfg \notin {"noCommand", "absent", ""}

\* initialize() on toolkit t up to its first await (the startup timer of
\* _spawnProcess), the toolkits being tks before: the guard, new Client, then
\* _spawnProcess: spawn, processRegistry.set, new StdioClientTransport
SpawnInitialize(t, tks) ==
    IF ~InitializeGuard(tks[t])
    THEN /\ spawnToolkits' = tks
         /\ UNCHANGED <<procs, processRegistry, killTimers>>
    ELSE LET withClient == [tks EXCEPT ![t].client = TRUE]
         IN IF ~withClient[t].transport /\ HasCommand(withClient[t].model_config)
            THEN LET p == FreeProc(procs)
                 IN /\ procs' = [procs EXCEPT ![p] = NewProc("spawn", t)]
                    /\ processRegistry' = [processRegistry EXCEPT ![t] = p]
                    /\ spawnToolkits' = [withClient EXCEPT
                           ![t].process = p, ![t].transport = TRUE,
                           ![t].pc = "spawnWait"]
                    /\ UNCHANGED killTimers
            ELSE SpawnCleanup(t, withClient,
                              IF tks[t].pc = "ready" THEN "closed"
                              ELSE IF Initializing(tks[t]) THEN tks[t].pc
                              ELSE "failed")

\* getTools of the Custom MCP node: the configuration checks, new MCPToolkit,
\* toolkit.initialize() up to its first await
GetToolsCall(cfg) ==
    /\ GetToolsCalls < MaxCalls
    /\ IF HasCommand(cfg)
       THEN LET t == FreeToolkit(spawnToolkits)
            IN /\ SpawnInitialize(t, [spawnToolkits EXCEPT ![t] = NewSpawnToolkit(cfg)])
               /\ coreCalls' = Append(coreCalls, [op |-> "getTools", tk |-> t])
       ELSE /\ coreCalls' = Append(coreCalls, [op |-> "getTools", tk |-> 0])
            /\ UNCHANGED <<spawnToolkits, procs, processRegistry, killTimers>>
    /\ UNCHANGED <<nodeVars, hookRuns>>

\* the holder of an initialized toolkit calls initialize() on it again
InitializeAgain(t) ==
    /\ InitializeCalls < MaxReinits
    /\ spawnToolkits[t].pc = "ready"
    /\ SpawnInitialize(t, spawnToolkits)
    /\ coreCalls' = Append(coreCalls, [op |-> "initialize", tk |-> t])
    /\ UNCHANGED <<nodeVars, hookRuns>>

\* initialize() is called on toolkit t while its first initialize() is still
\* at one of its awaits.  _tools is still null, so the guard lets the call in:
\* it makes a new Client, finds this.transport set, throws 'Transport is not
\* initialized or model config is missing' and its catch block calls
\* cleanup() on the toolkit; the call ends by throwing.  The first call stays
\* where it is and goes on later with the fields as cleanup() left them.
InitializeOverlapping(t) ==
    /\ InitializeCalls < MaxReinits
    /\ Initializing(spawnToolkits[t])
    /\ SpawnInitialize(t, spawnToolkits)
    /\ coreCalls' = Append(coreCalls, [op |-> "initialize", tk |-> t])
    /\ UNCHANGED <<nodeVars, hookRuns>>

\* the startup timer of _spawnProcess fires: resolve if this.process is set and
\* its exitCode is null, else reject; after resolve initialize() goes on to
\* client.connect(transport); a rejection goes to initialize()'s catch block
StartupTimer(t) ==
    LET tk == spawnToolkits[t]
    IN /\ tk.pc = "spawnWait"
       /\ IF tk.process # 0 /\ ExitCodeIsNull(procs[tk.process]) /\ tk.transport
          THEN /\ spawnToolkits' = [spawnToolkits EXCEPT ![t].pc = "connecting"]
               /\ UNCHANGED <<procs, processRegistry, killTimers>>
          ELSE SpawnCleanup(t, spawnToolkits, "failed")
       /\ UNCHANGED <<nodeVars, hookRuns, coreCalls>>

\* client.connect(transport) resolves: the stdio transport has spawned the
\* server command as a child process of its own; initialize() sends tools/list
SpawnConnectOk(t) ==
    LET connected == [procs EXCEPT ![FreeProc(procs)] = NewProc("transport", t)]
    IN /\ spawnToolkits[t].pc = "connecting"
       /\ IF spawnToolkits[t].client
          THEN /\ procs' = connected
               /\ spawnToolkits' = [spawnToolkits EXCEPT ![t].pc = "listing"]
               /\ UNCHANGED <<processRegistry, killTimers>>
          ELSE \* this.client is null by now: this.client.request throws
               SpawnCleanupFrom(t, spawnToolkits, connected, "failed")
       /\ UNCHANGED <<nodeVars, hookRuns, coreCalls>>

\* client.connect(transport) rejects
SpawnConnectFails(t) ==
    /\ spawnToolkits[t].pc = "connecting"
    /\ SpawnCleanup(t, spawnToolkits, "failed")
    /\ UNCHANGED <<nodeVars, hookRuns, coreCalls>>

\* the process the transport of toolkit t talks to
TransportProcs(t) == {p \in ProcIds : procs[p].kind = "transport" /\ procs[p].owner = t}

\* the tools/list response arrives: _tools is set and get_tools builds the proxies
SpawnListToolsOk(t, lst) ==
    LET listed == [spawnToolkits EXCEPT ![t]._tools = ListToolsResult(lst)]
    IN /\ spawnToolkits[t].pc = "listing"
       /\ \E p \in TransportProcs(t) : procs[p].state = "running"
       /\ IF GetToolsThrows(lst) \/ ~spawnToolkits[t].client
          THEN \* a schema throws, or get_tools finds this.client null
               SpawnCleanup(t, listed, "failed")
          ELSE /\ spawnToolkits' = [listed EXCEPT ![t].tools = GetTools(lst),
                                                  ![t].pc = "ready"]
               /\ UNCHANGED <<procs, processRegistry, killTimers>>
       /\ UNCHANGED <<nodeVars, hookRuns, coreCalls>>

\* the tools/list request rejects
SpawnListToolsFails(t) ==
    /\ spawnToolkits[t].pc = "listing"
    /\ SpawnCleanup(t, spawnToolkits, "failed")
    /\ UNCHANGED <<nodeVars, hookRuns, coreCalls>>

\* the holder of a toolkit whose initialize() has returned calls cleanup()
CleanupCall(t) ==
    /\ spawnToolkits[t].pc = "ready"
    /\ SpawnCleanup(t, spawnToolkits, "closed")
    /\ UNCHANGED <<nodeVars, hookRuns, coreCalls>>

\* the SIGKILL timer of cleanup() fires: it reads this.process again
KillTimer(t) ==
    LET tk == spawnToolkits[t]
    IN /\ t \in killTimers
       /\ killTimers' = killTimers \ {t}
       /\ procs' = IF tk.process # 0 /\ ExitCodeIsNull(procs[tk.process])
                   THEN Kill(procs, tk.process, "sigkill")
                   ELSE procs
       /\ UNCHANGED <<nodeVars, spawnToolkits, processRegistry, hookRuns, coreCalls>>

\* a child process ends, with an exit code ("exited") or by a signal
\* ("killed"); the 'exit' listener of a process spawned by _spawnProcess
\* deletes the toolkit's processId from processRegistry
ChildEnds(p, how) ==
    /\ procs[p].state = "running"
    /\ procs' = [procs EXCEPT ![p].state = how]
    /\ processRegistry' = IF procs[p].kind = "spawn"
                          THEN [processRegistry EXCEPT ![procs[p].owner] = 0]
                          ELSE processRegistry
    /\ UNCHANGED <<nodeVars, spawnToolkits, killTimers, hookRuns, coreCalls>>

\* process.on('exit'): SIGTERM to every registered child whose exitCode is null
ExitHook ==
    /\ hookRuns < MaxHookRuns
    /\ hookRuns' = hookRuns + 1
    /\ procs' = [p \in ProcIds |->
          IF /\ \E t \in ToolkitIds : processRegistry[t] = p
             /\ ExitCodeIsNull(procs[p])
             /\ procs[p].state = "running"
          THEN [procs[p] EXCEPT !.hookterm = @ + 1]
          ELSE procs[p]]
    /\ UNCHANGED <<nodeVars, spawnToolkits, processRegistry, killTimers, coreCalls>>

SpawnInit ==
    /\ InitCore
    /\ toolkits = [t \in ToolkitIds |-> NoToolkit]
    /\ nextId = 1
    /\ activeToolkits = {}
    /\ shuttingDown = FALSE
    /\ runtimeInstances = [k \in Keys |-> 0]
    /\ tasks = [i \in TaskIds |-> IdleTask]
    /\ timers = {}
    /\ hasDestroy = FALSE
    /\ shutdownPc = [s \in Signals |-> "idle"]
    /\ node = "customMCP_0"
    /\ bodyRuns = 0
    /\ exits = 0
    /\ cleanupCalled = {}
    /\ hostExited = FALSE
    /\ invoked = <<>>

SpawnNext ==
    \/ \E cfg \in SpawnConfigs : GetToolsCall(cfg)
    \/ \E t \in ToolkitIds : InitializeAgain(t)
    \/ \E t \in ToolkitIds : InitializeOverlapping(t)
    \/ \E t \in ToolkitIds : StartupTimer(t)
    \/ \E t \in ToolkitIds : SpawnConnectOk(t)
    \/ \E t \in ToolkitIds : SpawnConnectFails(t)
    \/ \E t \in ToolkitIds, lst \in ListToolsResults : SpawnListToolsOk(t, lst)
    \/ \E t \in ToolkitIds : SpawnListToolsFails(t)
    \/ \E t \in ToolkitIds : CleanupCall(t)
    \/ \E t \in ToolkitIds : KillTimer(t)
    \/ \E p \in ProcIds, how \in {"exited", "killed"} : ChildEnds(p, how)
    \/ ExitHook

SpawnSpec == SpawnInit /\ [][SpawnNext]_vars

\* ------------------------------------------------------------ the claims
\* the session states of the specification, read off the toolkit's fields;
\* Ready is reached when the proxies of all descriptors have been built
Ready(tk) ==
    /\ Initialized(tk)
    /\ tk.transport
    /\ tk.proc = "running"
    /\ Len(tk.tools) = Len(tk._tools.tools)
Closed(tk) == ~tk.client /\ ~tk.transport /\ tk._tools = Null /\ tk.tools = <<>>
Spawned(tk) == tk.proc # "none"

\* call i, an init() with configuration tasks'[i].cfg, makes the cache check of
\* getRuntimeToolkit in this step
ChecksCache(i) ==
    /\ tasks[i].pc \in {"idle", "credential"}
    /\ tasks'[i].op = "init"
    /\ tasks'[i].pc # "credential"

\* C1: an acquire that, at its cache check, finds as the entry of its key the
\* toolkit an earlier successful acquire with the same configuration returned,
\* returns that very instance in that step; it constructs no toolkit, changes
\* no toolkit (no initialize, no spawn) and leaves the registry as it is.
C1_CacheHitReturnsSameInstance ==
    [][\A i \in TaskIds :
          (/\ ChecksCache(i)
           /\ \E j \in TaskIds :
                 /\ tasks[j].op = "init" /\ tasks[j].pc = "done"
                 /\ tasks[j].cfg = tasks'[i].cfg
                 /\ runtimeInstances[node] = tasks[j].tk)
          => /\ tasks'[i].pc = "done"
             /\ tasks'[i].tk = runtimeInstances[node]
             /\ nextId' = nextId
             /\ toolkits' = toolkits
             /\ runtimeInstances' = runtimeInstances]_vars

\* C1 witness: the second acquire has returned the toolkit of the first, and
\* one toolkit was constructed in all
C1_Witness ==
    /\ tasks[1].op = "init" /\ tasks[1].out = "toolkit"
    /\ tasks[2].op = "init" /\ tasks[2].out = "toolkit"
    /\ tasks[1].cfg = tasks[2].cfg
    /\ tasks[1].tk = tasks[2].tk
    /\ nextId = 2

\* C2 (as claimed): an acquire that finds an entry with another fingerprint
\* removes it and cleans the old session up, leaving it Closed with its process
\* sent a termination request; the session the acquire then returns is another
\* instance and becomes the entry.
C2_EvictionClosesAndSignals ==
    [][\A i \in TaskIds :
          /\ (ChecksCache(i) /\ runtimeInstances[node] # 0
                /\ ~CacheHit(node, tasks'[i].cfg))
             => /\ runtimeInstances'[node] # runtimeInstances[node]
                /\ Closed(toolkits'[runtimeInstances[node]])
                /\ Spawned(toolkits[runtimeInstances[node]])
                     => toolkits'[runtimeInstances[node]].destroyCalls >= 1
          /\ (tasks[i].op = "init" /\ tasks[i].pc = "listing" /\ tasks'[i].pc = "done")
             => /\ runtimeInstances'[node] = tasks'[i].tk
                /\ tasks'[i].tk # runtimeInstances[node]]_vars

\* C3 (as claimed): two overlapping acquires for the same unseen key with the
\* same configuration initialize one and the same session, not one each.
C3_OneSessionForOverlappingAcquires ==
    \A i, j \in TaskIds :
        (/\ i # j
         /\ tasks[i].op = "init" /\ tasks[j].op = "init"
         /\ tasks[i].key = tasks[j].key /\ tasks[i].cfg = tasks[j].cfg
         /\ tasks[i].pc \in {"connecting", "listing"}
         /\ tasks[j].pc \in {"connecting", "listing"})
        => tasks[i].tk = tasks[j].tk

\* C4 (as claimed): when the shutdown routine completes, no server process that
\* was ever spawned is still running.
C4_NoProcessRunningAfterShutdown ==
    [][\A s \in Signals :
          (shutdownPc[s] # "done" /\ shutdownPc'[s] = "done")
          => \A t \in ToolkitIds : toolkits'[t].proc # "running"]_vars

\* C5 (as claimed): once cleanup() has been called on a session, however often,
\* the session is Closed and its process was sent exactly one termination request.
C5_CleanupClosesAndSignalsOnce ==
    \A t \in cleanupCalled :
        /\ Closed(toolkits[t])
        /\ Spawned(toolkits[t]) => toolkits[t].destroyCalls = 1

\* C6 (as claimed): when initialize() has failed, the session is Closed and a
\* process that was started for it has been sent a termination request.
C6_FailedInitializeIsCleanedUp ==
    \A i \in TaskIds :
        (tasks[i].out \in {"threw", "error"} /\ tasks[i].tk # 0)
        => /\ Closed(toolkits[tasks[i].tk])
           /\ Spawned(toolkits[tasks[i].tk]) => toolkits[tasks[i].tk].destroyCalls >= 1

\* C7 (as claimed): when an acquire fails, the registry has no entry for its key.
C7_NoEntryAfterFailedAcquire ==
    [][\A i \in TaskIds :
          (tasks[i].pc # "failed" /\ tasks'[i].pc = "failed")
          => runtimeInstances'[tasks'[i].key] = 0]_vars

\* C8 (as claimed): the session an acquire returns is Ready.
C8_AcquireReturnsReadySession ==
    [][\A i \in TaskIds :
          (tasks[i].pc # "done" /\ tasks'[i].pc = "done" /\ tasks'[i].op = "init")
          => Ready(toolkits'[tasks'[i].tk])]_vars

\* the sessions created for key k by acquire that are initialized and not cleaned up
LiveSessions(k) ==
    {t \in 1..(nextId - 1) :
        /\ toolkits[t].owner = k
        /\ ~toolkits[t].ephemeral
        /\ Initialized(toolkits[t])
        /\ toolkits[t].tools # <<>>}

\* C9 (as claimed): a key has at most one live non-ephemeral session.
C9_AtMostOneLiveSessionPerKey ==
    \A k \in Keys : Cardinality(LiveSessions(k)) <= 1

\* C10: the body of shutdownGracefully (snapshot and cleanups) runs at most once.
C10_ShutdownBodyRunsAtMostOnce == bodyRuns <= 1

\* C10 witness: the second signal has come and returned while the first call
\* of shutdownGracefully is still awaiting its cleanups
C10_Witness ==
    \E s1, s2 \in Signals :
        /\ shutdownPc[s1] = "awaiting"
        /\ shutdownPc[s2] = "done"
        /\ bodyRuns = 1

\* C11 (as claimed): when a call of shutdownGracefully that ran the body returns,
\* runtimeInstances has no entry, and cleanup() was called on every toolkit that
\* was in activeToolkits when the call began.
C11_RegistryClearedByShutdown ==
    [][\A s \in Signals :
          /\ (shutdownPc[s] = "idle" /\ shutdownPc'[s] # "idle" /\ ~shuttingDown)
             => activeToolkits \subseteq cleanupCalled'
          /\ (/\ shutdownPc'[s] = "done"
              /\ \/ shutdownPc[s] = "awaiting"
                 \/ shutdownPc[s] = "idle" /\ ~shuttingDown)
             => \A k \in Keys : runtimeInstances'[k] = 0]_vars

\* C12 (as claimed): once the interrupt signal, the terminate signal or the
\* normal exit of the host process has occurred, the body of the shutdown
\* routine has run, exactly once.
C12_FirstEventRunsShutdownOnce ==
    (hostExited \/ \E s \in Signals : shutdownPc[s] # "idle") => bodyRuns = 1

\* C13: no step of a listActions call adds or replaces an entry of
\* runtimeInstances; the only change such a call makes to it is the removal of
\* the cached entry of its key by the refresh logic at the call's start, before
\* fetchToolsFromServer; the deferred cleanup changes no entry; and no toolkit
\* made by fetchToolsFromServer is ever an entry.
C13_EphemeralNeverStored ==
    [][/\ \A i \in TaskIds :
             (tasks'[i].op = "list" /\ tasks'[i] # tasks[i])
             => \A k \in Keys :
                   \/ runtimeInstances'[k] = runtimeInstances[k]
                   \/ /\ tasks[i].pc = "idle"
                      /\ k = tasks'[i].key
                      /\ runtimeInstances'[k] = 0
       /\ (timers' # timers /\ timers' \subseteq timers)
             => runtimeInstances' = runtimeInstances
       /\ \A k \in Keys :
             runtimeInstances'[k] # 0 => ~toolkits'[runtimeInstances'[k]].ephemeral]_vars

\* C13 witness: one listActions call has returned tools, another has failed
\* after constructing its toolkit, and the key has no entry
C13_Witness ==
    \E i, j \in TaskIds :
        /\ tasks[i].op = "list" /\ tasks[i].out = "tools"
        /\ tasks[j].op = "list" /\ tasks[j].out = "error" /\ tasks[j].tk # 0
        /\ runtimeInstances[node] = 0

\* C14 (as claimed): when the deferred cleanup that fetchToolsFromServer
\* scheduled for its temporary toolkit has run, that toolkit is Closed and its
\* process has been sent a termination request.
C14_DeferredCleanupClosesEphemeral ==
    [][\A t \in ToolkitIds :
          (t \in timers /\ t \notin timers')
          => /\ Closed(toolkits'[t])
             /\ toolkits'[t].destroyCalls >= 1]_vars

\* C15 (as claimed): a listActions call that reaches the refresh logic while its
\* key has an entry removes the entry and cleans the session up, leaving it
\* Closed with its process no longer running; with no entry for the key the
\* refresh logic changes neither the registry nor any existing toolkit.
C15_ReleaseRemovesAndTerminates ==
    [][\A i \in TaskIds :
          (tasks[i].pc = "idle" /\ tasks'[i].op = "list"
             /\ ~ConfigMissing(node, tasks'[i].cfg))
          => IF runtimeInstances[node] # 0
             THEN /\ runtimeInstances'[node] = 0
                  /\ Closed(toolkits'[runtimeInstances[node]])
                  /\ toolkits'[runtimeInstances[node]].proc # "running"
             ELSE /\ runtimeInstances' = runtimeInstances
                  /\ activeToolkits' = activeToolkits
                  /\ \A t \in 1..(nextId - 1) : toolkits'[t] = toolkits[t]]_vars

\* C16 (as claimed): an invocation made while the session is not Ready fails
\* with the 'not initialized' error and sends no request to the server process.
C16_InvokeNeedsReady ==
    \A n \in 1..Len(invoked) :
        ~invoked[n].ready
        => invoked[n].error = "not_initialized" /\ ~invoked[n].sent

\* C17: a listActions call never ends by throwing; when it has returned, its
\* result is the tools, the 'config_missing' placeholder or the 'error'
\* placeholder, and it is the 'error' placeholder whenever the configuration is
\* rejected or initialize() fails.
C17_ListActionsNeverThrows ==
    \A i \in TaskIds :
        tasks[i].op = "list"
        => /\ tasks[i].pc # "failed"
           /\ tasks[i].out # "threw"
           /\ tasks[i].pc = "done"
                => tasks[i].out \in {"tools", "config_missing", "error"}
           /\ (tasks[i].pc = "done" /\ tasks[i].out = "tools")
                => tasks[i].tk # 0 /\ ConfigAccepted(tasks[i].key, tasks[i].cfg)

\* C17 witness: one listActions call ended with the placeholder because its
\* configuration was rejected, another because initialize() failed
C17_Witness ==
    \E i, j \in TaskIds :
        /\ tasks[i].op = "list" /\ tasks[i].out = "error" /\ tasks[i].tk = 0
        /\ tasks[j].op = "list" /\ tasks[j].out = "error" /\ tasks[j].tk # 0

\* C18: when the tools/list response holds a descriptor that is not well formed,
\* the call fails (init() throws, listActions shows the placeholder), the
\* toolkit is not Ready, its tools list stays empty, and it is neither stored
\* in runtimeInstances nor scheduled as a listed toolkit.
C18_MalformedDescriptorFailsInitialize ==
    [][\A i \in TaskIds :
          LET t == tasks[i].tk
          IN (/\ tasks[i].pc = "listing" /\ tasks'[i].pc # "listing"
              /\ ~toolkits'[t]._tools.isNull
              /\ \E n \in 1..Len(toolkits'[t]._tools.tools) :
                    ~toolkits'[t]._tools.tools[n].wellFormed)
             => /\ tasks'[i].out \in {"threw", "error"}
                /\ toolkits'[t].tools = <<>>
                /\ ~Ready(toolkits'[t])
                /\ runtimeInstances'[tasks[i].key] # t
                /\ t \notin timers']_vars

\* C18 witness: an init() has thrown on a response with a well-formed and a
\* malformed descriptor
C18_Witness ==
    \E i \in TaskIds :
        /\ tasks[i].op = "init" /\ tasks[i].out = "threw" /\ tasks[i].tk # 0
        /\ toolkits[tasks[i].tk]._tools = ListToolsResult(<<SearchTool, BadTool>>)
        /\ toolkits[tasks[i].tk].tools = <<>>

C20_NoCommandRejectedBeforeSpawn ==
    [][\A i \in TaskIds :
          (tasks[i].pc = "idle" /\ tasks'[i].pc # "idle" /\ tasks'[i].cfg = "noCommand")
          => /\ tasks'[i].out \in {"threw", "error"}
             /\ tasks'[i].tk = 0
             /\ nextId' = nextId
             /\ \A t \in ToolkitIds :
                   /\ Spawned(toolkits'[t]) => Spawned(toolkits[t])
                   /\ toolkits'[t].proc = "running" => toolkits[t].proc = "running"
                   /\ toolkits'[t].transport => toolkits[t].transport
                   /\ toolkits'[t].client => toolkits[t].client
             /\ runtimeInstances'[tasks'[i].key] = 0]_vars

\* C20 witness: an init() and a listActions call without a command have failed
\* and no toolkit was constructed
C20_Witness ==
    \E i, j \in TaskIds :
        /\ tasks[i].op = "init" /\ tasks[i].cfg = "noCommand" /\ tasks[i].out = "threw"
        /\ tasks[j].op = "list" /\ tasks[j].cfg = "noCommand" /\ tasks[j].out = "error"
        /\ nextId = 1

\* C21 (as claimed): when the SIGKILL timer that cleanup() started fires, the
\* process cleanup() sent SIGTERM to is sent SIGKILL if it is still running,
\* and is sent none if it has ended within the window; no process is sent
\* SIGKILL without SIGTERM before.
C21_SigtermThenSigkill ==
    [][/\ \A t \in ToolkitIds :
             (t \in killTimers /\ t \notin killTimers')
             => \A p \in ProcIds :
                   (procs[p].kind = "spawn" /\ procs[p].owner = t
                      /\ procs[p].sigterm >= 1)
                   => IF procs[p].state = "running"
                      THEN procs'[p].sigkill = 1
                      ELSE procs'[p].sigkill = 0
       /\ \A p \in ProcIds : procs'[p].sigkill >= 1 => procs'[p].sigterm >= 1]_vars

\* C22 (as claimed): when cleanup() is called on a Ready session, a termination
\* request has been issued to its process when the call completes; and no step
\* takes a session out of activeToolkits and leaves it Closed with its process
\* running and no termination request issued.
C22_CleanupIssuesTermination ==
    [][\A t \in ToolkitIds :
          /\ (/\ Ready(toolkits[t])
              /\ \/ t \notin cleanupCalled /\ t \in cleanupCalled'
                 \/ t \in activeToolkits /\ t \notin activeToolkits')
             => toolkits'[t].destroyCalls >= 1
          /\ (/\ t \in activeToolkits /\ t \notin activeToolkits'
              /\ Closed(toolkits'[t])
              /\ toolkits'[t].proc = "running")
             => toolkits'[t].destroyCalls >= 1]_vars

\* C23 (as claimed): when the startup timer of _spawnProcess fires, the wait
\* succeeds (initialize() goes on to connect) if and only if the spawned
\* process is still running; if it has ended, with a code or by a signal, the
\* wait fails and initialize() fails.
C23_ReadinessWaitIffRunning ==
    [][\A t \in ToolkitIds :
          (spawnToolkits[t].pc = "spawnWait" /\ spawnToolkits'[t].pc # "spawnWait")
          => LET p == spawnToolkits[t].process
             IN IF p # 0 /\ procs[p].state = "running"
                THEN spawnToolkits'[t].pc = "connecting"
                ELSE spawnToolkits'[t].pc = "failed"]_vars

\* cleanup() has been called on the toolkit that owns process p
CleanedUp(p) == spawnToolkits[procs[p].owner].pc \in {"failed", "closed"}

\* C24 (as claimed): a run of the exit hook sends one termination signal to
\* every child process of a toolkit that is running and was not cleaned up,
\* and none to a process that has already ended.
C24_ExitHookSignalsEveryChild ==
    [][hookRuns' = hookRuns + 1
       => \A p \in ProcIds :
             /\ (procs[p].state = "running" /\ ~CleanedUp(p))
                => procs'[p].hookterm = procs[p].hookterm + 1
             /\ procs[p].state \in {"exited", "killed"}
                => procs'[p].hookterm = procs[p].hookterm]_vars

\* the child processes launched for toolkit t
ProcsOf(t) == {p \in ProcIds : procs[p].state # "none" /\ procs[p].owner = t}

\* C25 (as claimed): when initialize() returns successfully, exactly one child
\* process has been launched for the session, and it is the process the
\* transport talks to; and a cleanup() of the Ready session sends that process
\* a termination signal if it is running.
C25_OneProcessPerSession ==
    [][\A t \in ToolkitIds :
          /\ (spawnToolkits[t].pc = "listing" /\ spawnToolkits'[t].pc = "ready")
             => /\ Cardinality(ProcsOf(t)) = 1
                /\ ProcsOf(t) = {spawnToolkits[t].process}
                /\ TransportProcs(t) = {spawnToolkits[t].process}
          /\ (spawnToolkits[t].pc = "ready" /\ spawnToolkits'[t].pc = "closed")
             => \A p \in TransportProcs(t) :
                   procs[p].state = "running" => procs'[p].sigterm >= 1]_vars

\* a toolkit of core.ts is Ready: client, transport, the discovered list and
\* one proxy per descriptor
SpawnReady(tk) ==
    /\ tk.client
    /\ tk.transport
    /\ tk._tools # Null
    /\ Len(tk.tools) = Len(tk._tools.tools)

\* C26: a call of initialize() on a Ready toolkit changes nothing: no toolkit
\* field (no new client or transport, tools as they were, no tools/list under
\* way), no process, no registry entry and no timer.
C26_InitializeOnReadyIsNoop ==
    [][\A t \in ToolkitIds :
          (/\ Len(coreCalls') = Len(coreCalls) + 1
           /\ coreCalls'[Len(coreCalls')] = [op |-> "initialize", tk |-> t]
           /\ SpawnReady(spawnToolkits[t]))
          => /\ spawnToolkits' = spawnToolkits
             /\ procs' = procs
             /\ processRegistry' = processRegistry
             /\ killTimers' = killTimers]_vars

\* C26 witness: initialize() was called a second time on a toolkit, which is
\* Ready with the two tools it had discovered
C26_Witness ==
    \E n \in 1..Len(coreCalls) :
        /\ coreCalls[n].op = "initialize"
        /\ SpawnReady(spawnToolkits[coreCalls[n].tk])
        /\ spawnToolkits[coreCalls[n].tk].tools = <<"search", "fetch">>
        /\ spawnToolkits[coreCalls[n].tk].pc = "ready"

\* the toolkit holds the discovered list and one proxy per descriptor
Listed(tk) ==
    /\ tk.client
    /\ tk.transport
    /\ ~tk._tools.isNull
    /\ Len(tk.tools) = Len(tk._tools.tools)

\* the lifecycle state of a session, read off the toolkit's fields: not yet
\* constructed, its initialize() failed, cleaned up, initialized, or under way
Lifecycle(tk, constructed, failed) ==
    IF ~constructed THEN "Uninitialized"
    ELSE IF failed THEN "Failed"
    ELSE IF Closed(tk) THEN "Closed"
    ELSE IF Listed(tk) THEN "Ready"
    ELSE "Initializing"

\* the call that constructed toolkit t has failed
InitializeFailed(tsk, t) ==
    \E i \in TaskIds : tsk[i].tk = t /\ tsk[i].out \in {"threw", "error"}

\* the lifecycle changes of the specification; Closing is passed through
\* inside the one step in which cleanup() runs
LifecycleSteps ==
    {<<"Uninitialized", "Initializing">>, <<"Initializing", "Ready">>,
     <<"Initializing", "Failed">>, <<"Ready", "Closed">>}

\* C27: in every step of init, listActions, the deferred cleanup and shutdown,
\* each session keeps its lifecycle state or changes it along
\* Uninitialized -> Initializing -> Ready, Initializing -> Failed or
\* Ready -> Closed.
C27_LifecycleOrder ==
    [][\A t \in ToolkitIds :
          LET before == Lifecycle(toolkits[t], t < nextId, InitializeFailed(tasks, t))
              after == Lifecycle(toolkits'[t], t < nextId', InitializeFailed(tasks', t))
          IN before = after \/ <<before, after>> \in LifecycleSteps]_vars

\* C27 witness: shutdown has begun, a session that init() had stored has gone
\* through Ready to Closed, and another session's initialize() has failed
C27_Witness ==
    \E t, u \in ToolkitIds :
        /\ Lifecycle(toolkits[t], t < nextId, InitializeFailed(tasks, t)) = "Closed"
        /\ toolkits[t].configHash # Undefined
        /\ Lifecycle(toolkits[u], u < nextId, InitializeFailed(tasks, u)) = "Failed"
        /\ shuttingDown

\* the toolkits reachable from runtimeInstances or from activeToolkits
Registered_Toolkits ==
    activeToolkits \cup {runtimeInstances[k] : k \in {j \in Keys : runtimeInstances[j] # 0}}

\* C28: every session that is an entry of runtimeInstances or a member of
\* activeToolkits is Ready or Closed; none is still Initializing (its
\* constructing call not yet returned) and none has failed initialization.
C28_RegisteredAreReadyOrClosed ==
    \A t \in Registered_Toolkits :
        /\ Lifecycle(toolkits[t], t < nextId, InitializeFailed(tasks, t))
              \in {"Ready", "Closed"}
        /\ \A i \in TaskIds :
              tasks[i].tk = t => tasks[i].pc \notin {"connecting", "listing"}

\* C28 witness: the registry names a session that shutdown has Closed, and a
\* session whose initialize() failed is in neither structure
C28_Witness ==
    \E t, u \in ToolkitIds :
        /\ runtimeInstances[node] = t
        /\ Lifecycle(toolkits[t], t < nextId, InitializeFailed(tasks, t)) = "Closed"
        /\ Lifecycle(toolkits[u], u < nextId, InitializeFailed(tasks, u)) = "Failed"
        /\ u \notin Registered_Toolkits

\* C29 (as claimed): the fingerprint recorded for every registry entry is the
\* fingerprint of the configuration its session was constructed and
\* initialized with (the registry being a map, a key has at most one entry).
C29_EntryFingerprintMatchesSession ==
    \A k \in Keys :
        runtimeInstances[k] # 0
        => toolkits[runtimeInstances[k]].configHash
              = ConfigHashOf(k, toolkits[runtimeInstances[k]].server_config)

CleanupBodyRan(t) == t \in activeToolkits /\ t \notin activeToolkits'

\* transport.destroy() is called on toolkit t in this step and throws
DestroyThrows(t) ==
    /\ toolkits'[t].destroyCalls = toolkits[t].destroyCalls + 1
    /\ toolkits'[t].destroyThrew
    /\ ~toolkits[t].destroyThrew

\* C31: a cleanup() whose transport.destroy() throws still runs its remaining
\* steps: the toolkit leaves activeToolkits, its client, transport, _tools and
\* tools are cleared (it is Closed), and cleanup() itself ends without an
\* exception; no cleanup() ever ends with one.
C31_CleanupCompletesWhenStepThrows ==
    [][\A t \in ToolkitIds :
          /\ DestroyThrows(t)
             => /\ CleanupBodyRan(t)
                /\ Closed(toolkits'[t])
                /\ ~toolkits'[t].cleanupThrew
          /\ CleanupBodyRan(t)
             => /\ Closed(toolkits'[t])
                /\ ~toolkits'[t].cleanupThrew]_vars

\* C31 witness: destroy() threw in the cleanup() of a session that had been
\* Ready (it has a fingerprint), before it had ended the process; the session
\* is Closed, out of activeToolkits, and its process still runs
C31_Witness ==
    \E t \in ToolkitIds :
        /\ toolkits[t].destroyThrew
        /\ toolkits[t].destroyCalls = 1
        /\ toolkits[t].configHash # Undefined
        /\ toolkits[t].proc = "running"
        /\ t \in cleanupCalled /\ t \notin activeToolkits
        /\ Closed(toolkits[t]) /\ ~toolkits[t].cleanupThrew

\* invocation n was made on a Ready session whose cleanup() has run since,
\* while the call was pending
PendingAtCleanup(n) ==
    /\ invoked[n].status = "pending"
    /\ invoked[n].ready
    /\ Closed(toolkits[invoked[n].tk])

\* C32 (as claimed): a call that was pending when cleanup() closed its session
\* ends by being rejected with the transport-closed error.
C32_PendingCallsFailOnCleanup ==
    [][\A n \in 1..Len(invoked) :
          (PendingAtCleanup(n) /\ invoked'[n].status # "pending")
          => /\ invoked'[n].status = "rejected"
             /\ invoked'[n].error = "transport"]_vars

\* the pending call n ends in this step
CallEnds(n) == invoked[n].status = "pending" /\ invoked'[n].status # "pending"

\* C33: when a pending call fails, because the server answered with an error
\* or because the connection to the server process is gone, the caller gets
\* that error as the rejection of its call, and the step changes no toolkit
\* (fields, tools list, process), neither runtimeInstances nor activeToolkits:
\* a session that was Ready is Ready afterwards.  A call whose server process
\* is gone never ends as a success.
C33_CallFailureLeavesSession ==
    [][\A n \in 1..Len(invoked) :
          CallEnds(n)
          => /\ toolkits[invoked[n].tk].proc # "running"
                => invoked'[n].status = "rejected"
             /\ invoked'[n].status = "rejected"
                => /\ invoked'[n].error =
                         (IF toolkits[invoked[n].tk].proc = "running"
                          THEN "server" ELSE "transport")
                   /\ toolkits' = toolkits
                   /\ runtimeInstances' = runtimeInstances
                   /\ activeToolkits' = activeToolkits
                   /\ Ready(toolkits[invoked[n].tk])
                        => Ready(toolkits'[invoked[n].tk])]_vars

\* C33 witness: a call was rejected with the server's error; its session is
\* still Ready, still the entry of its node and still in activeToolkits
C33_Witness ==
    \E n \in 1..Len(invoked) :
        /\ invoked[n].status = "rejected"
        /\ invoked[n].error = "server"
        /\ Ready(toolkits[invoked[n].tk])
        /\ runtimeInstances[node] = invoked[n].tk
        /\ invoked[n].tk \in activeToolkits

\* the call of shutdownGracefully for signal s runs the body in this step
ShutdownBodyRuns(s) == shutdownPc[s] = "idle" /\ shutdownPc'[s] # "idle" /\ ~shuttingDown

\* C34: the step in which shutdownGracefully runs its body calls cleanup() on
\* every toolkit of its snapshot, whatever the destroy() calls of the others
\* do: each is Closed afterwards, none of the cleanups ended with an
\* exception, and destroy() was called on each that had a transport to
\* destroy.  The call returns at once only if the snapshot was empty; else it
\* returns from its await, after all these cleanups.
C34_ShutdownAwaitsAllCleanups ==
    [][\A s \in Signals :
          /\ ShutdownBodyRuns(s)
             => /\ \A t \in activeToolkits :
                      /\ t \in cleanupCalled'
                      /\ Closed(toolkits'[t])
                      /\ ~toolkits'[t].cleanupThrew
                      /\ CallsDestroy(toolkits, activeToolkits, t)
                           => toolkits'[t].destroyCalls = toolkits[t].destroyCalls + 1
                /\ shutdownPc'[s] = "done" <=> activeToolkits = {}
          /\ (shutdownPc[s] = "awaiting" /\ shutdownPc'[s] = "done")
             => bodyRuns = 1 /\ shuttingDown]_vars

\* C34 witness: shutdownGracefully has returned from its await after a body
\* that cleaned two sessions; destroy() threw for the first, and the second
\* was destroyed and closed all the same
C34_Witness ==
    \E s \in Signals :
        /\ shutdownPc[s] = "done"
        /\ \A s2 \in Signals \ {s} : shutdownPc[s2] = "idle"
        /\ bodyRuns = 1
        /\ toolkits[1].destroyThrew /\ Closed(toolkits[1])
        /\ toolkits[1].configHash # Undefined
        /\ ~toolkits[2].destroyThrew /\ toolkits[2].destroyCalls = 1
        /\ toolkits[2].proc = "terminated" /\ Closed(toolkits[2])
        /\ toolkits[2].configHash # Undefined
        /\ {1, 2} \subseteq cleanupCalled
        /\ tasks[1].pc = "done" /\ tasks[2].pc = "done"
        /\ tasks[1].cfg = tasks[2].cfg

\* cleanup() is called in this step on toolkit t, the entry of the node, by an
\* eviction (a call at its cache check or in its refresh logic), not by shutdown
EvictionCleanup(t) ==
    /\ runtimeInstances[node] = t
    /\ t \in cleanupCalled' \ cleanupCalled
    /\ \E i \in TaskIds : tasks[i].pc \in {"idle", "credential"} /\ tasks'[i] # tasks[i]

\* C35: the step that calls cleanup() on an entry in order to evict it also
\* takes the entry out of runtimeInstances, so no later step finds it there; a
\* toolkit that becomes an entry never had cleanup() called on it; and a
\* cache hit returns the toolkit that is the entry at that moment.  So no
\* acquire gets a cache hit on a session whose eviction cleanup has begun.
C35_EvictionRemovesEntryFirst ==
    [][/\ \A t \in ToolkitIds :
             /\ EvictionCleanup(t) => runtimeInstances'[node] # t
             /\ (runtimeInstances'[node] = t /\ runtimeInstances[node] # t)
                => t \notin cleanupCalled'
       /\ \A i \in TaskIds :
             (ChecksCache(i) /\ tasks'[i].pc = "done")
             => /\ tasks'[i].tk = runtimeInstances[node]
                /\ runtimeInstances' = runtimeInstances
                /\ ~shuttingDown => tasks'[i].tk \notin cleanupCalled]_vars

\* C35 witness: the first session was evicted and cleaned up before any
\* shutdown, and the session the evicting acquire created in its place is
\* the entry now
C35_Witness ==
    /\ 1 \in cleanupCalled /\ Closed(toolkits[1])
    /\ toolkits[1].configHash # Undefined
    /\ runtimeInstances[node] = 2
    /\ ~shuttingDown
    /\ tasks[1].op = "init" /\ tasks[1].tk = 1
    /\ tasks[2].op = "init" /\ tasks[2].tk = 2 /\ tasks[2].pc = "done"

\* C36 (as claimed): every toolkit that is an entry of runtimeInstances is a
\* member of activeToolkits.
C36_EntriesAreInShutdownSet ==
    \A k \in Keys : runtimeInstances[k] # 0 => runtimeInstances[k] \in activeToolkits

\* initialize() is called in this step on toolkit t, whose first initialize()
\* is still at one of its awaits
OverlappingCall(t) ==
    /\ Len(coreCalls') = Len(coreCalls) + 1
    /\ coreCalls'[Len(coreCalls')] = [op |-> "initialize", tk |-> t]
    /\ Initializing(spawnToolkits[t])

\* C37 (as claimed): an initialize() called on a session that is still
\* Initializing spawns no further process and leaves the work of the first
\* call as it is: the session's client, transport and process, the processes
\* and processRegistry are unchanged, and the first call is not made to fail.
C37_OverlappingInitializeIsHarmless ==
    [][\A t \in ToolkitIds :
          OverlappingCall(t)
          => /\ \A p \in ProcIds : procs'[p].state = "none" <=> procs[p].state = "none"
             /\ spawnToolkits'[t] = spawnToolkits[t]
             /\ procs' = procs
             /\ processRegistry' = processRegistry]_vars

\* C38 (as claimed): a toolkit that passes initialize()'s guard (client and
\* _tools both set) has one proxy per descriptor of _tools, and the toolkit of
\* a call whose initialize() threw does not pass the guard.
C38_InitializedMeansToolsBuilt ==
    /\ \A t \in ToolkitIds :
          Initialized(toolkits[t])
          => toolkits[t].tools = GetTools(toolkits[t]._tools.tools)
    /\ \A i \in TaskIds :
          (tasks[i].out \in {"threw", "error"} /\ tasks[i].tk # 0)
          => ~Initialized(toolkits[tasks[i].tk])

\* process p can still be reached: processRegistry holds it or the process
\* field of a toolkit refers to it
Reachable(p) ==
    \E t \in ToolkitIds : processRegistry[t] = p \/ spawnToolkits[t].process = p

\* C39 (as claimed): every child process that is still running is recorded in
\* processRegistry or referenced by the process field of its toolkit.
C39_RunningChildrenAreReachable ==
    \A p \in ProcIds : procs[p].state = "running" => Reachable(p)

\* call i is made in this step: listActions on the Custom node with no
\* mcpServerConfig
ListActionsWithoutConfig(i) ==
    /\ NodeKind(node) = "custom"
    /\ tasks[i].pc = "idle"
    /\ tasks'[i].op = "list"
    /\ tasks'[i].cfg = "absent"

\* C40: listActions of the Custom node, called with no server configuration,
\* returns the 'config_missing' placeholder in that step, with no toolkit of
\* its own, and leaves everything else as it was: the toolkits (none closed,
\* none constructed, no process spawned), runtimeInstances, activeToolkits,
\* the pending cleanup timers and the record of cleanup() calls.
C40_ListActionsWithoutConfigChangesNothing ==
    [][\A i \in TaskIds :
          ListActionsWithoutConfig(i)
          => /\ tasks'[i].pc = "done"
             /\ tasks'[i].out = "config_missing"
             /\ tasks'[i].tk = 0
             /\ toolkits' = toolkits
             /\ nextId' = nextId
             /\ runtimeInstances' = runtimeInstances
             /\ activeToolkits' = activeToolkits
             /\ timers' = timers
             /\ cleanupCalled' = cleanupCalled]_vars

\* C40 witness: a session is cached for the node; listActions without a
\* configuration has returned the placeholder; the session is still the
\* entry, Ready and in activeToolkits, and no cleanup() was called
C40_Witness ==
    /\ tasks[1].op = "init" /\ tasks[1].out = "toolkit"
    /\ tasks[2].op = "list" /\ tasks[2].out = "config_missing"
    /\ runtimeInstances[node] = tasks[1].tk
    /\ Ready(toolkits[tasks[1].tk])
    /\ tasks[1].tk \in activeToolkits
    /\ cleanupCalled = {}
    /\ nextId = 2

====
